---- MODULE Spec2Model ----
(***************************************************************************)
(* A model of the sharded checkpoint protocol of FSDPCheckpointManager     *)
(* (src/verl/utils/checkpoint/fsdp_checkpoint_manager.py) and of the       *)
(* optimizer step of DataParallelPPOActor                                  *)
(* (src/verl/workers/actor/dp_actor.py).                                   *)
(*                                                                         *)
(* Spec        - NumWorkers SPMD workers run save_checkpoint concurrently. *)
(* SpecResume  - the same, and the job stops and load_checkpoint is run.   *)
(* SpecUpdate  - one worker runs update_policy.                            *)
(* SpecForward - _forward_micro_batch up to the full-layout log_probs.     *)
(* SpecMicro   - the compact projection and the losses of one micro-batch. *)
(* SpecGroup   - the step-or-skip decisions of a group of workers.         *)
(* SpecNoWriteFailure - Spec under weak fairness of every worker's steps.  *)
(***************************************************************************)
EXTENDS Integers, Sequences, FiniteSets, TLC

\* ---------------------------------------------------------------- bounds
NumWorkers == 2      \* world size of the save protocol
MaxSaves == 2        \* save_checkpoint calls per worker
MaxEpochs == 2       \* ppo_epochs is in 1 .. MaxEpochs
MaxData == 3         \* len(data) and the two batch sizes are in 1 .. MaxData
MaxGradNorm == 2     \* config.max_grad_norm
MaxCells == 6        \* a micro-batch tensor has at most MaxCells elements

\* ------------------------------------------------------------- vocabulary
Ranks == 0 .. (NumWorkers - 1)
world_size == NumWorkers

\* Python's None; every value of the model is a record, so any two compare.
None == [none |-> TRUE]
Kinds == {"model", "optim", "extra_state"}

\* Faulty variant: the rank is missing from the name.
ShardPathRankDropped(kind, ws, rank) == <<kind, ws, 0>>

\* f"{kind}_world_size_{self.world_size}_rank_{self.rank}.pt" under path P:
\* the file name is determined by, and determines, the triple.
ShardPath(kind, ws, rank) == <<kind, ws, rank>>

AllPaths == Kinds \X {world_size} \X Ranks

\* What rank zero puts under P/merged_model.
MergedArtifacts == {"dir", "weights", "config", "generation_config", "processing_class"}

VARIABLES
    pc,         \* pc[w]: where worker w is in save_checkpoint
    smo,        \* smo[w]: the save_model_only argument of w's current/last call
    live,       \* live[w]: the worker's model/optimizer/lr_scheduler/rng state
    sd,         \* sd[w]: the locals model_state_dict, optim_state_dict, extra_state_dict
    files,      \* files[p]: content of shard file p under P, or None
    dirs,       \* directories that exist: subset of {"P", "merged_model"}
    merged,     \* artifacts present in P/merged_model
    arrived,    \* arrived[w]: number of dist.barrier() calls w has entered
    calls,      \* calls[w]: number of save_checkpoint calls w has started
    schedule,   \* schedule[c]: the save_model_only argument of the c-th save (SPMD:
                \* every worker runs the same program, so makes the same calls)
    written,    \* written[w]: the kinds of shard file w's current/last save wrote (history)
    entry,      \* entry[w]: live[w] at the start of w's last save_checkpoint (history)
    writers,    \* writers[p]: the <<rank, save_model_only>> of every write to p (history)
    mwriters,   \* ranks that created or wrote anything under P/merged_model (history)
    failed,     \* failed[w]: the merged export of w's current/last call raised (history)
    logged,     \* logged[w]: "Failed to save merged model" was printed in that call
    pre,        \* pre[w]: live[w] at the start of w's load_checkpoint (history)
    load_world_size  \* self.world_size of the manager that runs load_checkpoint

ckptVars == <<pc, smo, live, sd, files, dirs, merged, arrived, calls, schedule, written,
              entry, writers, mwriters, failed, logged, pre, load_world_size>>

VARIABLES
    cfg,        \* the ActorConfig fields update_policy reads, and len(data)
    upc,        \* where update_policy is
    epoch,      \* epochs of range(ppo_epochs) completed
    mini,       \* mini_batch_idx of the current mini-batch (from 1; 0 before the first)
    micro,      \* micro-batches of the current mini-batch already processed
    grads,      \* the gradient accumulated in the parameters' .grad
    params,     \* the parameters of actor_module
    grad_norm,  \* the local grad_norm of _optimizer_step
    pre_params, \* params when _optimizer_step was entered (history)
    metrics,    \* the metrics dictionary of update_policy
    decisions   \* step-or-skip decisions taken so far (history)

updVars == <<cfg, upc, epoch, mini, micro, grads, params, grad_norm, pre_params,
             metrics, decisions>>

VARIABLES
    micro_batch,            \* the micro-batch given to _forward_micro_batch
    fpc,                    \* where the forward pass / the loss computation is
    indices,                \* indices returned by unpad_input
    input_ids_rmpad,        \* the packed token ids
    input_ids_rmpad_rolled, \* the packed labels
    log_probs,              \* the local log_probs of _forward_micro_batch, before line 191
    compact_log_prob,       \* the result of _get_compact_response_log_probs
    pg_loss,                \* the surrogate loss of the micro-batch
    kl_loss                 \* the KL penalty of the micro-batch

fwdVars == <<micro_batch, fpc, indices, input_ids_rmpad, input_ids_rmpad_rolled,
             log_probs, compact_log_prob, pg_loss, kl_loss>>

VARIABLES
    is_fsdp,         \* isinstance(self.actor_module, FSDP), the same on all workers
    gpc,             \* gpc[w]: where worker w is in its mini-batch
    local_norms,     \* local_norms[w][k]: norm of w's own gradient at its k-th mini-batch
    group_grad_norm, \* group_grad_norm[w]: grad_norm of w's current _optimizer_step
    applied          \* applied[w][k]: w's k-th decision was to apply the step (history)

grpVars == <<is_fsdp, gpc, local_norms, group_grad_norm, applied>>

vars == <<ckptVars, updVars, fwdVars, grpVars>>

\* ------------------------------------------------------------ worker state
\* Shard r of a state component at version v.
Shard(r, v) == [shard |-> r, version |-> v]

InitLive(r) ==
    [model |-> Shard(r, 0), optim |-> Shard(r, 0),
     lr_scheduler |-> Shard(r, 0), rng |-> Shard(r, 0)]

NoDicts == [model |-> None, optim |-> None, extra_state |-> None]

\* BaseCheckpointManager.get_rng_state / load_rng_state: a snapshot of the
\* process-wide generators and its restoration.
get_rng_state(rng) == [cpu |-> rng]
load_rng_state(snap) == snap.cpu

CkptInit ==
    /\ pc = [w \in Ranks |-> "idle"]
    /\ smo = [w \in Ranks |-> FALSE]
    /\ live = [w \in Ranks |-> InitLive(w)]
    /\ sd = [w \in Ranks |-> NoDicts]
    /\ files = [p \in AllPaths |-> None]
    /\ dirs = {}
    /\ merged = {}
    /\ arrived = [w \in Ranks |-> 0]
    /\ calls = [w \in Ranks |-> 0]
    /\ schedule \in [1 .. MaxSaves -> BOOLEAN]
    /\ written = [w \in Ranks |-> {}]
    /\ entry = [w \in Ranks |-> InitLive(w)]
    /\ writers = [p \in AllPaths |-> {}]
    /\ mwriters = {}
    /\ failed = [w \in Ranks |-> FALSE]
    /\ logged = [w \in Ranks |-> FALSE]
    /\ pre = [w \in Ranks |-> InitLive(w)]
    /\ load_world_size = world_size

\* --------------------------------------------------------------- training
\* The training iteration that precedes each checkpoint: the optimizer step
\* changes model and optimizer, the scheduler steps, random draws advance the rng.
Bump(s) == [s EXCEPT !.version = @ + 1]

TrainStep(w) ==
    /\ pc[w] = "idle"
    /\ calls[w] < MaxSaves
    /\ live[w].model.version = calls[w]
    /\ live' = [live EXCEPT ![w] =
                  [model |-> Bump(@.model), optim |-> Bump(@.optim),
                   lr_scheduler |-> Bump(@.lr_scheduler), rng |-> Bump(@.rng)]]
    /\ UNCHANGED <<pc, smo, sd, files, dirs, merged, arrived, calls, schedule, written, entry,
                   writers, mwriters, failed, logged, pre, load_world_size, updVars, fwdVars, grpVars>>

\* ---------------------------------------------------------- save_checkpoint
\* dist.barrier(): the k-th call of a rank returns once every rank of the
\* group has entered its k-th call.
BarrierReleased(w) == \A v \in Ranks : arrived[v] >= arrived[w]

\* BaseCheckpointManager.local_mkdir(path): make sure the directory exists.
local_mkdir(ds, path) == ds \cup {path}

\* Faulty variant: the barrier of line 100 is missing.
SaveCallNoBarrier(w, save_model_only) ==
    /\ pc[w] = "idle"
    /\ calls[w] < MaxSaves
    /\ save_model_only = schedule[calls[w] + 1]
    /\ live[w].model.version = calls[w] + 1
    /\ pc' = [pc EXCEPT ![w] = "save_model"]
    /\ smo' = [smo EXCEPT ![w] = save_model_only]
    /\ calls' = [calls EXCEPT ![w] = @ + 1]
    /\ written' = [written EXCEPT ![w] = {}]
    /\ entry' = [entry EXCEPT ![w] = live[w]]
    /\ dirs' = local_mkdir(dirs, "P")
    /\ failed' = [failed EXCEPT ![w] = FALSE]
    /\ logged' = [logged EXCEPT ![w] = FALSE]
    /\ UNCHANGED <<live, sd, files, merged, arrived, schedule, writers, mwriters, pre, load_world_size, updVars, fwdVars, grpVars>>

\* Lines 98-99: the call and path = self.local_mkdir(path).
SaveCall(w, save_model_only) ==
    /\ pc[w] = "idle"
    /\ calls[w] < MaxSaves
    /\ save_model_only = schedule[calls[w] + 1]
    /\ live[w].model.version = calls[w] + 1
    /\ pc' = [pc EXCEPT ![w] = "barrier1"]
    /\ smo' = [smo EXCEPT ![w] = save_model_only]
    /\ calls' = [calls EXCEPT ![w] = @ + 1]
    /\ written' = [written EXCEPT ![w] = {}]
    /\ entry' = [entry EXCEPT ![w] = live[w]]
    /\ dirs' = local_mkdir(dirs, "P")
    /\ failed' = [failed EXCEPT ![w] = FALSE]
    /\ logged' = [logged EXCEPT ![w] = FALSE]
    /\ UNCHANGED <<live, sd, files, merged, arrived, schedule, writers, mwriters, pre, load_world_size, updVars, fwdVars, grpVars>>

\* Lines 100, 126, 155: entering dist.barrier().
BarrierPcs == {"barrier1", "barrier2", "barrier3"}
WaitOf(p) == CASE p = "barrier1" -> "wait1"
               [] p = "barrier2" -> "wait2"
               [] p = "barrier3" -> "wait3"

BarrierArrive(w) ==
    /\ pc[w] \in BarrierPcs
    /\ pc' = [pc EXCEPT ![w] = WaitOf(@)]
    /\ arrived' = [arrived EXCEPT ![w] = @ + 1]
    /\ UNCHANGED <<smo, live, sd, files, dirs, merged, calls, schedule, written, entry,
                   writers, mwriters, failed, logged, pre, load_world_size, updVars, fwdVars, grpVars>>

\* dist.barrier() returns; after the third one save_checkpoint returns.
AfterWait(p) == CASE p = "wait1" -> "save_model"
                  [] p = "wait2" -> "state_dict"
                  [] p = "wait3" -> "idle"

BarrierPass(w) ==
    /\ pc[w] \in {"wait1", "wait2", "wait3"}
    /\ BarrierReleased(w)
    /\ pc' = [pc EXCEPT ![w] = AfterWait(@)]
    /\ sd' = [sd EXCEPT ![w] = IF pc[w] = "wait3" THEN NoDicts ELSE @]
    /\ UNCHANGED <<smo, live, files, dirs, merged, arrived, calls, schedule, written, entry,
                   writers, mwriters, failed, logged, pre, load_world_size, updVars, fwdVars, grpVars>>

\* torch.save(obj, path)
Write(p, obj, w) ==
    /\ files' = [files EXCEPT ![p] = obj]
    /\ written' = [written EXCEPT ![w] = @ \cup {p[1]}]
    /\ writers' = [writers EXCEPT ![p] = @ \cup {<<w, smo[w]>>}]

\* Faulty variant: the barrier of line 126 is missing.
AfterWritesNoBarrier == "state_dict"

\* Where a worker goes once its last shard file is written: the barrier of line 126.
AfterWrites == "barrier2"

\* Faulty variant: save_model_only is ignored.
AfterModelAlwaysFull(save_model_only) == "save_optim"

\* Lines 109-111 (save_model_only) or 113-121: collect the state dicts and
\* write the model shard.
AfterModel(save_model_only) == IF save_model_only THEN AfterWrites ELSE "save_optim"

SaveModel(w) ==
    /\ pc[w] = "save_model"
    /\ LET dicts == IF smo[w]
                    THEN [NoDicts EXCEPT !.model = live[w].model]
                    ELSE [model |-> live[w].model,
                          optim |-> live[w].optim,
                          extra_state |-> [lr_scheduler |-> live[w].lr_scheduler,
                                           rng |-> get_rng_state(live[w].rng)]]
       IN /\ sd' = [sd EXCEPT ![w] = dicts]
          /\ Write(ShardPath("model", world_size, w), dicts.model, w)
    /\ pc' = [pc EXCEPT ![w] = AfterModel(smo[w])]
    /\ UNCHANGED <<smo, live, dirs, merged, arrived, calls, schedule, entry,
                   mwriters, failed, logged, pre, load_world_size, updVars, fwdVars, grpVars>>

\* Line 122.
SaveOptim(w) ==
    /\ pc[w] = "save_optim"
    /\ Write(ShardPath("optim", world_size, w), sd[w].optim, w)
    /\ pc' = [pc EXCEPT ![w] = "save_extra"]
    /\ UNCHANGED <<smo, live, sd, dirs, merged, arrived, calls, schedule, entry,
                   mwriters, failed, logged, pre, load_world_size, updVars, fwdVars, grpVars>>

\* Line 123.
SaveExtra(w) ==
    /\ pc[w] = "save_extra"
    /\ Write(ShardPath("extra_state", world_size, w), sd[w].extra_state, w)
    /\ pc' = [pc EXCEPT ![w] = AfterWrites]
    /\ UNCHANGED <<smo, live, sd, dirs, merged, arrived, calls, schedule, entry,
                   mwriters, failed, logged, pre, load_world_size, updVars, fwdVars, grpVars>>

\* torch.save raises (disk error): nothing catches it, the exception leaves
\* save_checkpoint and the worker never reaches the next barrier.
SaveRaise(w) ==
    /\ pc[w] \in {"save_model", "save_optim", "save_extra"}
    /\ pc' = [pc EXCEPT ![w] = "raised"]
    /\ UNCHANGED <<smo, live, sd, files, dirs, merged, arrived, calls, schedule, written, entry,
                   writers, mwriters, failed, logged, pre, load_world_size, updVars, fwdVars, grpVars>>

\* Faulty variant: the rank test is missing.
IsExportRankAny(w) == TRUE

\* Line 143: if self.rank == 0
IsExportRank(w) == w = 0

\* Faulty variant: the last barrier is inside the rank test.
FullStateDictBarrierInRankTest(w) ==
    /\ pc[w] = "state_dict"
    /\ pc' = [pc EXCEPT ![w] = IF IsExportRank(w) THEN "makedirs" ELSE "idle"]
    /\ UNCHANGED <<smo, live, sd, files, dirs, merged, arrived, calls, schedule, written, entry,
                   writers, mwriters, failed, logged, pre, load_world_size, updVars, fwdVars, grpVars>>

\* Lines 140-141: the consolidated state dict of the FSDP wrapper.
FullStateDict(w) ==
    /\ pc[w] = "state_dict"
    /\ pc' = [pc EXCEPT ![w] = IF IsExportRank(w) THEN "makedirs" ELSE "barrier3"]
    /\ UNCHANGED <<smo, live, sd, files, dirs, merged, arrived, calls, schedule, written, entry,
                   writers, mwriters, failed, logged, pre, load_world_size, updVars, fwdVars, grpVars>>

\* Lines 144-150: the export steps of the rank that passed the check.
ExportPcs == {"makedirs", "save_pretrained", "config", "generation_config",
              "processing_class"}

ExportNext(p) == CASE p = "makedirs" -> "save_pretrained"
                   [] p = "save_pretrained" -> "config"
                   [] p = "config" -> "generation_config"
                   [] p = "generation_config" -> "processing_class"
                   [] p = "processing_class" -> "barrier3"

ExportArtifact(p) == CASE p = "makedirs" -> "dir"
                       [] p = "save_pretrained" -> "weights"
                       [] p = "config" -> "config"
                       [] p = "generation_config" -> "generation_config"
                       [] p = "processing_class" -> "processing_class"

ExportStep(w) ==
    /\ pc[w] \in ExportPcs
    /\ merged' = merged \cup {ExportArtifact(pc[w])}
    /\ dirs' = dirs \cup {"merged_model"}
    /\ mwriters' = mwriters \cup {w}
    /\ pc' = [pc EXCEPT ![w] = ExportNext(@)]
    /\ UNCHANGED <<smo, live, sd, files, arrived, calls, schedule, written, entry,
                   writers, failed, logged, pre, load_world_size, updVars, fwdVars, grpVars>>

\* Faulty variant: the exception is not caught.
ExportFailPropagates(w) ==
    /\ pc[w] \in ExportPcs \cup {"state_dict"}
    /\ failed' = [failed EXCEPT ![w] = TRUE]
    /\ pc' = [pc EXCEPT ![w] = "raised"]
    /\ UNCHANGED <<smo, live, sd, files, dirs, merged, arrived, calls, schedule, written, entry,
                   writers, mwriters, logged, pre, load_world_size, updVars, fwdVars, grpVars>>

\* Lines 152-154: anything raised inside the try block (collecting the full
\* state, makedirs, save_pretrained, the isinstance assertion, the config and
\* tokenizer writes) is caught and printed.
ExportFail(w) ==
    /\ pc[w] \in ExportPcs \cup {"state_dict"}
    /\ failed' = [failed EXCEPT ![w] = TRUE]
    /\ logged' = [logged EXCEPT ![w] = TRUE]
    /\ pc' = [pc EXCEPT ![w] = "barrier3"]
    /\ UNCHANGED <<smo, live, sd, files, dirs, merged, arrived, calls, schedule, written, entry,
                   writers, mwriters, pre, load_world_size, updVars, fwdVars, grpVars>>

Next ==
    \E w \in Ranks :
        \/ \E b \in BOOLEAN : SaveCall(w, b)
        \/ BarrierArrive(w)
        \/ BarrierPass(w)
        \/ SaveModel(w)
        \/ SaveOptim(w)
        \/ SaveExtra(w)
        \/ SaveRaise(w)
        \/ FullStateDict(w)
        \/ ExportStep(w)
        \/ ExportFail(w)
        \/ TrainStep(w)

\* The steps of worker w when no shard write fails.
WorkerStep(w) ==
    \/ \E b \in BOOLEAN : SaveCall(w, b)
    \/ BarrierArrive(w)
    \/ BarrierPass(w)
    \/ SaveModel(w)
    \/ SaveOptim(w)
    \/ SaveExtra(w)
    \/ FullStateDict(w)
    \/ ExportStep(w)
    \/ ExportFail(w)
    \/ TrainStep(w)

NextNoWriteFailure == \E w \in Ranks : WorkerStep(w)

\* ---------------------------------------------------------- load_checkpoint
\* The job stops (every worker between calls, or dead after a worker raised
\* and the others blocked in a barrier). A worker of rank w then runs
\* load_checkpoint(P): a freshly constructed worker of the same world size
\* when fresh, the worker as it is otherwise. Each worker reads only its own
\* files and load_checkpoint has no collective, so the loads of the other ranks
\* do not interact with this one and are left out.
Stopped ==
    /\ \A w \in Ranks : pc[w] \in {"idle", "raised", "wait1", "wait2", "wait3"}
    /\ \/ \A w \in Ranks : pc[w] = "idle"
       \/ \E w \in Ranks : pc[w] = "raised"

\* The world sizes the job is restarted with: the one of the saves, or one
\* worker more.
LoadWorldSizes == {world_size, world_size + 1}

Resume(w, fresh, ws) ==
    /\ Stopped
    /\ load_world_size' = ws
    /\ pc' = [v \in Ranks |-> IF v = w THEN "load" ELSE "stopped"]
    /\ live' = IF fresh THEN [live EXCEPT ![w] = InitLive(w)] ELSE live
    /\ sd' = [v \in Ranks |-> NoDicts]
    /\ arrived' = [v \in Ranks |-> 0]
    /\ failed' = [v \in Ranks |-> FALSE]
    /\ logged' = [v \in Ranks |-> FALSE]
    /\ UNCHANGED <<smo, files, dirs, merged, calls, schedule, written, entry,
                   writers, mwriters, pre, updVars, fwdVars, grpVars>>

\* Faulty variant: the rank is missing from the name.
LoadShardPathRankDropped(kind, ws, rank) == <<kind, ws, 0>>

\* Lines 64-66: the file names load_checkpoint reads.
LoadShardPath(kind, ws, rank) == <<kind, ws, rank>>

\* os.path.exists: P holds the files the saves wrote and no others.
Exists(p) == p \in DOMAIN files /\ files[p] # None

\* Lines 59-68: the call with a path that is not None, and the test for the
\* optimizer shard.
LoadCall(w) ==
    /\ pc[w] = "load"
    /\ pre' = [pre EXCEPT ![w] = live[w]]
    /\ pc' = [pc EXCEPT ![w] =
                IF ~Exists(LoadShardPath("optim", load_world_size, w))
                THEN "read_model_only" ELSE "read_optim"]
    /\ UNCHANGED <<smo, live, sd, files, dirs, merged, arrived, calls, schedule,
                   written, entry, writers, mwriters, failed, logged, load_world_size, updVars, fwdVars, grpVars>>

\* The torch.load calls of lines 71, 81, 82, 83 and the file each one reads.
ReadPcs == {"read_model_only", "read_optim", "read_extra", "read_model"}

ReadKind(p) == CASE p = "read_model_only" -> "model"
                 [] p = "read_optim" -> "optim"
                 [] p = "read_extra" -> "extra_state"
                 [] p = "read_model" -> "model"

ReadNext(p) == CASE p = "read_model_only" -> "set_model_state_dict"
                 [] p = "read_optim" -> "read_extra"
                 [] p = "read_extra" -> "read_model"
                 [] p = "read_model" -> "set_state_dict"

TorchLoad(w) ==
    /\ pc[w] \in ReadPcs
    /\ LET p == LoadShardPath(ReadKind(pc[w]), load_world_size, w)
       IN /\ Exists(p)
          /\ sd' = [sd EXCEPT ![w][ReadKind(pc[w])] = files[p]]
    /\ pc' = [pc EXCEPT ![w] = ReadNext(@)]
    /\ UNCHANGED <<smo, live, files, dirs, merged, arrived, calls, schedule,
                   written, entry, writers, mwriters, failed, logged, pre, load_world_size, updVars, fwdVars, grpVars>>

\* Faulty variant: a missing file is passed over and the load goes on.
TorchLoadMissingIgnored(w) ==
    /\ pc[w] \in ReadPcs
    /\ ~Exists(LoadShardPath(ReadKind(pc[w]), load_world_size, w))
    /\ pc' = [pc EXCEPT ![w] = "loaded"]
    /\ UNCHANGED <<smo, live, sd, files, dirs, merged, arrived, calls, schedule,
                   written, entry, writers, mwriters, failed, logged, pre, load_world_size, updVars, fwdVars, grpVars>>

\* torch.load of a file that does not exist raises; load_checkpoint catches
\* nothing, so the error reaches the caller.
TorchLoadRaise(w) ==
    /\ pc[w] \in ReadPcs
    /\ ~Exists(LoadShardPath(ReadKind(pc[w]), load_world_size, w))
    /\ pc' = [pc EXCEPT ![w] = "load_raised"]
    /\ UNCHANGED <<smo, live, sd, files, dirs, merged, arrived, calls, schedule,
                   written, entry, writers, mwriters, failed, logged, pre, load_world_size, updVars, fwdVars, grpVars>>

\* Faulty variant: the loaded model state is not applied.
SetModelStateDictDropped(w) ==
    /\ pc[w] = "set_model_state_dict"
    /\ pc' = [pc EXCEPT ![w] = "loaded"]
    /\ UNCHANGED <<smo, live, sd, files, dirs, merged, arrived, calls, schedule,
                   written, entry, writers, mwriters, failed, logged, pre, load_world_size, updVars, fwdVars, grpVars>>

\* Lines 72-76: set_model_state_dict, then the return.
SetModelStateDict(w) ==
    /\ pc[w] = "set_model_state_dict"
    /\ live' = [live EXCEPT ![w].model = sd[w].model]
    /\ pc' = [pc EXCEPT ![w] = "loaded"]
    /\ UNCHANGED <<smo, sd, files, dirs, merged, arrived, calls, schedule,
                   written, entry, writers, mwriters, failed, logged, pre, load_world_size, updVars, fwdVars, grpVars>>

\* Lines 85-91: set_state_dict restores model and optimizer.
SetStateDict(w) ==
    /\ pc[w] = "set_state_dict"
    /\ live' = [live EXCEPT ![w].model = sd[w].model, ![w].optim = sd[w].optim]
    /\ pc' = [pc EXCEPT ![w] = "lr_scheduler"]
    /\ UNCHANGED <<smo, sd, files, dirs, merged, arrived, calls, schedule,
                   written, entry, writers, mwriters, failed, logged, pre, load_world_size, updVars, fwdVars, grpVars>>

\* Line 92: self.lr_scheduler.load_state_dict(extra_state_dict["lr_scheduler"])
LoadLrScheduler(w) ==
    /\ pc[w] = "lr_scheduler"
    /\ live' = [live EXCEPT ![w].lr_scheduler = sd[w].extra_state.lr_scheduler]
    /\ pc' = [pc EXCEPT ![w] = "rng"]
    /\ UNCHANGED <<smo, sd, files, dirs, merged, arrived, calls, schedule,
                   written, entry, writers, mwriters, failed, logged, pre, load_world_size, updVars, fwdVars, grpVars>>

\* Faulty variant: the random state is not recovered.
RecoverRngDropped(w) ==
    /\ pc[w] = "rng"
    /\ pc' = [pc EXCEPT ![w] = "loaded"]
    /\ UNCHANGED <<smo, live, sd, files, dirs, merged, arrived, calls, schedule,
                   written, entry, writers, mwriters, failed, logged, pre, load_world_size, updVars, fwdVars, grpVars>>

\* Lines 95-96: recover the random state when the extra state has one; return.
RecoverRng(w) ==
    /\ pc[w] = "rng"
    /\ live' = [live EXCEPT ![w].rng =
                  IF "rng" \in DOMAIN sd[w].extra_state
                  THEN load_rng_state(sd[w].extra_state.rng) ELSE @]
    /\ pc' = [pc EXCEPT ![w] = "loaded"]
    /\ UNCHANGED <<smo, sd, files, dirs, merged, arrived, calls, schedule,
                   written, entry, writers, mwriters, failed, logged, pre, load_world_size, updVars, fwdVars, grpVars>>

NextResume ==
    \/ Next
    \/ \E w \in Ranks :
        \/ \E fresh \in BOOLEAN, ws \in LoadWorldSizes : Resume(w, fresh, ws)
        \/ LoadCall(w)
        \/ TorchLoad(w)
        \/ TorchLoadRaise(w)
        \/ SetModelStateDict(w)
        \/ SetStateDict(w)
        \/ LoadLrScheduler(w)
        \/ RecoverRng(w)

\* =========================================================================
\* DataParallelPPOActor.update_policy and _optimizer_step (dp_actor.py)
\* =========================================================================
\* Floating point values: finite, NaN or +Inf. Gradients and parameters are
\* kept as numerators over the common denominator gradient_accumulation (the
\* divisor of line 323), so that the arithmetic stays in the integers.
Fin(v) == [k |-> "fin", v |-> v]
NaN == [k |-> "nan", v |-> 0]
PosInf == [k |-> "inf", v |-> 0]

\* torch.isfinite
isfinite(x) == x.k = "fin"

FAdd(a, b) ==
    IF a.k = "nan" \/ b.k = "nan" THEN NaN
    ELSE IF a.k = "inf" \/ b.k = "inf" THEN PosInf
    ELSE Fin(a.v + b.v)

\* a - b; Inf - Inf is NaN.
FSub(a, b) ==
    IF a.k = "nan" \/ b.k = "nan" \/ (a.k = "inf" /\ b.k = "inf") THEN NaN
    ELSE IF a.k = "inf" THEN PosInf
    ELSE IF b.k = "inf" THEN NaN
    ELSE Fin(a.v - b.v)

Abs(i) == IF i < 0 THEN -i ELSE i

\* The gradients loss.backward() can add for one micro-batch (before the
\* division of line 323): finite ones, and the non-finite ones a numerically
\* unstable forward pass yields.
GradSamples == {Fin(1), Fin(3), NaN, PosInf}

\* DataProto.split(size): consecutive chunks of at most size samples.
NumChunks(n, size) == (n + size - 1) \div size

ChunkSize(n, size, i) == IF i * size <= n THEN size ELSE n - (i - 1) * size

\* Line 270: mini_batches = data.split(global_batch_size_per_device)
NumMini == NumChunks(cfg.n, cfg.global_batch_size_per_device)

\* Line 283: micro_batches = mini_batch.split(micro_batch_size_per_device_for_update)
NumMicro(i) ==
    NumChunks(ChunkSize(cfg.n, cfg.global_batch_size_per_device, i),
              cfg.micro_batch_size_per_device_for_update)

\* Lines 280-282.
gradient_accumulation ==
    cfg.global_batch_size_per_device \div cfg.micro_batch_size_per_device_for_update

Configs ==
    [ppo_epochs : 1 .. MaxEpochs,
     n : 1 .. MaxData,
     global_batch_size_per_device : 1 .. MaxData,
     micro_batch_size_per_device_for_update : 1 .. MaxData,
     max_grad_norm : {MaxGradNorm},
     use_kl_loss : BOOLEAN,
     has_ref_log_probs : BOOLEAN]

\* The keys of batch_metrics (lines 326-332), of the KL penalty (320-321) and
\* of the gradient norm (341).
BatchMetricKeys ==
    {"actor/pg_loss", "actor/pg_clipfrac_higher", "actor/pg_clipfrac_lower",
     "actor/entropy_loss", "actor/ppo_kl"}
KlMetricKeys == {"actor/kl_loss", "actor/kl_coef"}
MetricKeys == BatchMetricKeys \cup KlMetricKeys \cup {"actor/grad_norm"}

\* A value of the dictionary: a list of items, or one bare scalar (the only
\* element of items, with list FALSE).
AList(items) == [list |-> TRUE, items |-> items]
Scalar(v) == [list |-> FALSE, items |-> <<v>>]

\* Line 272: metrics = defaultdict(list); a key not yet set reads as [].
NoMetrics == [k \in MetricKeys |-> AList(<< >>)]

\* py_functional.append_to_dict(data, new_data): data[key].append(val) for
\* every key of new_data.
append_to_dict(data, keys, val) ==
    [k \in DOMAIN data |->
        IF k \in keys THEN AList(Append(data[k].items, val)) ELSE data[k]]

\* The value a metric gets from the micro-batch (epoch e, mini-batch m,
\* micro-batch u), all counted from 1; u is 0 for the per-mini-batch value.
Tick(e, m, u) == [e |-> e, m |-> m, u |-> u]

UpdInit ==
    /\ cfg \in Configs
    /\ upc = "mini_loop"
    /\ epoch = 0
    /\ mini = 0
    /\ micro = 0
    /\ grads = Fin(0)
    /\ params = Fin(0)
    /\ grad_norm = Fin(0)
    /\ pre_params = Fin(0)
    /\ metrics = NoMetrics
    /\ decisions = 0

\* Lines 273-283: the next mini-batch of the epoch.
StartMiniBatch ==
    /\ upc = "mini_loop"
    /\ epoch < cfg.ppo_epochs
    /\ mini < NumMini
    /\ mini' = mini + 1
    /\ micro' = 0
    /\ upc' = "micro_loop"
    /\ UNCHANGED <<cfg, epoch, grads, params, grad_norm, pre_params, metrics, decisions, ckptVars, fwdVars, grpVars>>

\* Lines 273, 349: the epoch is over; the next one starts or update_policy returns.
EndEpoch ==
    /\ upc = "mini_loop"
    /\ epoch < cfg.ppo_epochs
    /\ mini = NumMini
    /\ epoch' = epoch + 1
    /\ mini' = 0
    /\ upc' = IF epoch + 1 < cfg.ppo_epochs THEN "mini_loop" ELSE "done"
    /\ UNCHANGED <<cfg, micro, grads, params, grad_norm, pre_params, metrics, decisions, ckptVars, fwdVars, grpVars>>

\* Lines 323-324: loss = pg_loss / gradient_accumulation; loss.backward().
\* Dividing by zero makes the loss, and the gradient with it, non-finite.
Backward(acc, g) ==
    IF gradient_accumulation = 0
    THEN FAdd(acc, IF g.k = "nan" THEN NaN ELSE PosInf)
    ELSE FAdd(acc, g)

\* Lines 320-321: metrics["actor/kl_loss"] = kl_loss.detach().item() and
\* metrics["actor/kl_coef"] = self.config.kl_coef are assignments.
KlMetrics(mt, val) == [k \in DOMAIN mt |-> IF k \in KlMetricKeys THEN Scalar(val) ELSE mt[k]]

\* Lines 286-333: one micro-batch.
MicroBatch(g) ==
    /\ upc = "micro_loop"
    /\ micro < NumMicro(mini)
    /\ grads' = Backward(grads, g)
    /\ micro' = micro + 1
    /\ LET val == Tick(epoch + 1, mini, micro + 1)
           mt == IF cfg.use_kl_loss /\ cfg.has_ref_log_probs
                 THEN KlMetrics(metrics, val) ELSE metrics
       IN metrics' = append_to_dict(mt, BatchMetricKeys, val)
    /\ UNCHANGED <<cfg, upc, epoch, mini, params, grad_norm, pre_params, decisions, ckptVars, fwdVars, grpVars>>

\* clip_grad_norm_(max_norm): the norm of the gradient, which is scaled down
\* to max_norm when larger; a non-finite norm makes the scaled gradient NaN.
GradNorm(g) == IF isfinite(g) THEN Fin(Abs(g.v)) ELSE g

Clipped(g, max_norm) ==
    IF ~isfinite(g) THEN NaN
    ELSE IF Abs(g.v) > max_norm * gradient_accumulation
         THEN Fin((IF g.v < 0 THEN -1 ELSE 1) * max_norm * gradient_accumulation)
         ELSE g

\* Lines 340, 195-198: _optimizer_step is entered after the last micro-batch.
ClipGradNorm ==
    /\ upc = "micro_loop"
    /\ micro = NumMicro(mini)
    /\ pre_params' = params
    /\ grad_norm' = GradNorm(grads)
    /\ grads' = Clipped(grads, cfg.max_grad_norm)
    /\ upc' = "isfinite"
    /\ UNCHANGED <<cfg, epoch, mini, micro, params, metrics, decisions, ckptVars, fwdVars, grpVars>>

\* self.actor_optimizer.step()
OptimizerStep(p, g) == FSub(p, g)

\* Faulty variant: the step is applied without the isfinite test.
StepOrSkipUnchecked ==
    /\ upc = "isfinite"
    /\ params' = OptimizerStep(params, grads)
    /\ decisions' = decisions + 1
    /\ upc' = "zero_grad"
    /\ UNCHANGED <<cfg, epoch, mini, micro, grads, grad_norm, pre_params, metrics, ckptVars, fwdVars, grpVars>>

\* Lines 200-203.
StepOrSkip ==
    /\ upc = "isfinite"
    /\ params' = IF ~isfinite(grad_norm) THEN params ELSE OptimizerStep(params, grads)
    /\ decisions' = decisions + 1
    /\ upc' = "zero_grad"
    /\ UNCHANGED <<cfg, epoch, mini, micro, grads, grad_norm, pre_params, metrics, ckptVars, fwdVars, grpVars>>

\* Faulty variant: the accumulated gradients are not cleared.
ZeroGradDropped ==
    /\ upc = "zero_grad"
    /\ metrics' = append_to_dict(metrics, {"actor/grad_norm"}, Tick(epoch + 1, mini, 0))
    /\ upc' = "mini_loop"
    /\ UNCHANGED <<cfg, epoch, mini, micro, grads, params, grad_norm, pre_params, decisions, ckptVars, fwdVars, grpVars>>

\* Lines 205-206 and 341: self.actor_optimizer.zero_grad(); return grad_norm,
\* which update_policy appends to the metrics.
ZeroGrad ==
    /\ upc = "zero_grad"
    /\ grads' = Fin(0)
    /\ metrics' = append_to_dict(metrics, {"actor/grad_norm"}, Tick(epoch + 1, mini, 0))
    /\ upc' = "mini_loop"
    /\ UNCHANGED <<cfg, epoch, mini, micro, params, grad_norm, pre_params, decisions, ckptVars, fwdVars, grpVars>>

NextUpdate ==
    \/ StartMiniBatch
    \/ EndEpoch
    \/ \E g \in GradSamples : MicroBatch(g)
    \/ ClipGradNorm
    \/ StepOrSkip
    \/ ZeroGrad

\* =========================================================================
\* DataParallelPPOActor._forward_micro_batch and the losses of update_policy
\* =========================================================================
\* A tensor of shape (rows, cols) is the sequence of its elements in row-major
\* order; element (i, s), both counted from 0, is at Flat(i, s, cols). Masks
\* are boolean tensors. ulysses_size is 1 (lines 132-138, 156-158 are skipped).
Flat(i, s, cols) == i * cols + s + 1
RowOf(p, cols) == (p - 1) \div cols
ColOf(p, cols) == (p - 1) % cols

\* torch.nonzero(mask.flatten()): the positions where mask is true, ascending.
RECURSIVE NonzeroFrom(_, _)
NonzeroFrom(mask, p) ==
    IF p > Len(mask) THEN << >>
    ELSE (IF mask[p] THEN <<p>> ELSE << >>) \o NonzeroFrom(mask, p + 1)

Nonzero(mask) == NonzeroFrom(mask, 1)

\* flash_attn.bert_padding.index_first_axis(x, idx) and x[mask]: gather.
index_first_axis(x, idx) == [j \in 1 .. Len(idx) |-> x[idx[j]]]

\* torch.roll(x, shifts=-1) along the only axis of length Len(x).
roll(x) == [j \in 1 .. Len(x) |-> x[(j % Len(x)) + 1]]

\* torch.roll(x, shifts=-1, dims=1) of a (rows, cols) tensor: within each row.
roll_dim1(x, cols) ==
    [p \in 1 .. Len(x) |-> x[Flat(RowOf(p, cols), (ColOf(p, cols) + 1) % cols, cols)]]

\* A log-probability: of the label, under the logits the model computes for
\* the token at position pos of the (batch, seqlen) input; 0.0 is ZeroValue.
LogProb(pos, label) == [pos |-> pos, label |-> label]
ZeroValue == [pos |-> 0, label |-> 0]

\* log_probs_from_logits(logits, labels), the logits being those of the tokens
\* at the given positions.
log_probs_from_logits(positions, labels) ==
    [j \in 1 .. Len(labels) |-> LogProb(positions[j], labels[j])]

\* Faulty variant: the values are written from the first position on.
pad_input_unindexed(values, idx, n) ==
    [p \in 1 .. n |-> IF p <= Len(values) THEN values[p] ELSE ZeroValue]

\* flash_attn.bert_padding.pad_input: output = zeros(batch * seqlen);
\* output[indices] = values.
pad_input(values, idx, n) ==
    [p \in 1 .. n |->
        IF \E j \in 1 .. Len(idx) : idx[j] = p
        THEN values[CHOOSE j \in 1 .. Len(idx) : idx[j] = p]
        ELSE ZeroValue]

\* The shapes of a micro-batch: rows * cols elements, at most MaxCells.
Shapes == {sh \in (1 .. MaxCells) \X (1 .. MaxCells) : sh[1] * sh[2] <= MaxCells}
Masks(n) == [1 .. n -> BOOLEAN]

\* input_ids: the token ids are pairwise distinct, so that a label tells the
\* position it was taken from.
TokenIds(n) == [p \in 1 .. n |-> p]

MicroBatchOf(rows, seqlen, compact_len, am, rm, cm, pf) ==
    [rows |-> rows, seqlen |-> seqlen, compact_len |-> compact_len,
     input_ids |-> TokenIds(rows * seqlen), attention_mask |-> am,
     response_mask |-> rm, compact_response_mask |-> cm, padding_free |-> pf]

NoLoss == [ok |-> FALSE, num |-> 0, den |-> 0]

FwdLocals ==
    /\ indices = << >>
    /\ input_ids_rmpad = << >>
    /\ input_ids_rmpad_rolled = << >>
    /\ compact_log_prob = << >>
    /\ pg_loss = NoLoss
    /\ kl_loss = NoLoss

\* Lines 86-93: _forward_micro_batch is called with any attention mask, in
\* either layout.
FwdInit ==
    /\ \E sh \in Shapes, pf \in BOOLEAN :
         \E am \in Masks(sh[1] * sh[2]) :
            micro_batch = MicroBatchOf(sh[1], sh[2], sh[2], am, am, am, pf)
    /\ fpc = "start"
    /\ log_probs = << >>
    /\ FwdLocals

\* Lines 110-114: unpad_input(input_ids.unsqueeze(-1), attention_mask).
UnpadInput ==
    /\ fpc = "start"
    /\ micro_batch.padding_free
    /\ indices' = Nonzero(micro_batch.attention_mask)
    /\ input_ids_rmpad' = index_first_axis(micro_batch.input_ids, indices')
    /\ fpc' = "roll"
    /\ UNCHANGED <<micro_batch, input_ids_rmpad_rolled, log_probs, compact_log_prob,
                   pg_loss, kl_loss, ckptVars, updVars, grpVars>>

\* Faulty variant: the labels are the tokens themselves.
RollRmpadDropped ==
    /\ fpc = "roll"
    /\ input_ids_rmpad_rolled' = input_ids_rmpad
    /\ fpc' = "forward_rmpad"
    /\ UNCHANGED <<micro_batch, indices, input_ids_rmpad, log_probs, compact_log_prob,
                   pg_loss, kl_loss, ckptVars, updVars, grpVars>>

\* Line 129: input_ids_rmpad_rolled = torch.roll(input_ids_rmpad, shifts=-1, dims=1).
RollRmpad ==
    /\ fpc = "roll"
    /\ input_ids_rmpad_rolled' = roll(input_ids_rmpad)
    /\ fpc' = "forward_rmpad"
    /\ UNCHANGED <<micro_batch, indices, input_ids_rmpad, log_probs, compact_log_prob,
                   pg_loss, kl_loss, ckptVars, updVars, grpVars>>

\* Lines 143-153: the model on the packed tokens, and the log-probabilities of
\* the packed labels; packed token j is the token at indices[j].
ForwardRmpad ==
    /\ fpc = "forward_rmpad"
    /\ log_probs' = log_probs_from_logits(indices, input_ids_rmpad_rolled)
    /\ fpc' = "pad_input"
    /\ UNCHANGED <<micro_batch, indices, input_ids_rmpad, input_ids_rmpad_rolled,
                   compact_log_prob, pg_loss, kl_loss, ckptVars, updVars, grpVars>>

\* Lines 161-167: pad back to (bsz, seqlen).
PadInput ==
    /\ fpc = "pad_input"
    /\ log_probs' = pad_input(log_probs, indices, micro_batch.rows * micro_batch.seqlen)
    /\ fpc' = "forwarded"
    /\ UNCHANGED <<micro_batch, indices, input_ids_rmpad, input_ids_rmpad_rolled,
                   compact_log_prob, pg_loss, kl_loss, ckptVars, updVars, grpVars>>

\* Lines 171-183: the padded branch.
ForwardPadded ==
    /\ fpc = "start"
    /\ ~micro_batch.padding_free
    /\ LET labels == roll_dim1(micro_batch.input_ids, micro_batch.seqlen)
       IN log_probs' = log_probs_from_logits(
                           [p \in 1 .. Len(labels) |-> p], labels)
    /\ fpc' = "forwarded"
    /\ UNCHANGED <<micro_batch, indices, input_ids_rmpad, input_ids_rmpad_rolled,
                   compact_log_prob, pg_loss, kl_loss, ckptVars, updVars, grpVars>>

NextForward ==
    \/ UnpadInput
    \/ RollRmpad
    \/ ForwardRmpad
    \/ PadInput
    \/ ForwardPadded

\* ---------------------------------------------------- the compact projection
\* compact_log_prob[compact_response_mask] = values (line 78) is index_put_:
\* the values must broadcast to the number of true positions of the mask, so
\* there are as many values as true positions, or one value, which is then
\* written to every true position; anything else raises.
Broadcasts(values, mask) ==
    Len(values) = Len(Nonzero(mask)) \/ Len(values) = 1

\* Faulty variant: the selected values are written in reverse order.
get_compact_reversed(response_mask, lp, compact_response_mask) ==
    LET values == index_first_axis(lp, Nonzero(response_mask))
        nz == Nonzero(compact_response_mask)
    IN  [q \in 1 .. Len(compact_response_mask) |->
            IF compact_response_mask[q]
            THEN (IF Len(values) = 1 THEN values[1]
                  ELSE values[Len(values) + 1 - (CHOOSE j \in 1 .. Len(nz) : nz[j] = q)])
            ELSE ZeroValue]

\* Lines 76-79: _get_compact_response_log_probs, when line 78 does not raise.
get_compact_response_log_probs(response_mask, lp, compact_response_mask) ==
    LET values == index_first_axis(lp, Nonzero(response_mask))
        nz == Nonzero(compact_response_mask)
    IN  [q \in 1 .. Len(compact_response_mask) |->
            IF compact_response_mask[q]
            THEN (IF Len(values) = 1 THEN values[1]
                  ELSE values[CHOOSE j \in 1 .. Len(nz) : nz[j] = q])
            ELSE ZeroValue]

\* Line 297: update_policy has the full-layout log-probabilities of a
\* micro-batch (here of the padded branch, without padding) and any two masks,
\* response_mask of the input's shape and compact_response_mask of its own.
MicroInit ==
    /\ \E sh \in Shapes, csh \in Shapes :
         /\ sh[1] = csh[1]
         /\ \E rm \in Masks(sh[1] * sh[2]), cm \in Masks(csh[1] * csh[2]) :
               micro_batch = MicroBatchOf(sh[1], sh[2], csh[2],
                                          [p \in 1 .. sh[1] * sh[2] |-> TRUE], rm, cm, FALSE)
    /\ fpc = "forwarded"
    /\ log_probs = log_probs_from_logits(
                       [p \in 1 .. micro_batch.rows * micro_batch.seqlen |-> p],
                       roll_dim1(micro_batch.input_ids, micro_batch.seqlen))
    /\ FwdLocals

\* Line 191, with lines 76-79 returning.
GetCompact ==
    /\ fpc = "forwarded"
    /\ Broadcasts(index_first_axis(log_probs, Nonzero(micro_batch.response_mask)),
                  micro_batch.compact_response_mask)
    /\ compact_log_prob' = get_compact_response_log_probs(
            micro_batch.response_mask, log_probs, micro_batch.compact_response_mask)
    /\ fpc' = "projected"
    /\ UNCHANGED <<micro_batch, indices, input_ids_rmpad, input_ids_rmpad_rolled,
                   log_probs, pg_loss, kl_loss, ckptVars, updVars, grpVars>>

\* Line 191, with line 78 raising the shape mismatch.
GetCompactRaise ==
    /\ fpc = "forwarded"
    /\ ~Broadcasts(index_first_axis(log_probs, Nonzero(micro_batch.response_mask)),
                   micro_batch.compact_response_mask)
    /\ fpc' = "project_raised"
    /\ UNCHANGED <<micro_batch, indices, input_ids_rmpad, input_ids_rmpad_rolled,
                   log_probs, compact_log_prob, pg_loss, kl_loss, ckptVars, updVars, grpVars>>

\* ------------------------------------------------------------------ losses
\* The per-token terms compute_policy_loss and compute_kl derive from the
\* compact log-probabilities: one number per element, here its position.
per_token(lp) == [q \in 1 .. Len(lp) |-> q]

RECURSIVE MaskedSum(_, _, _, _, _, _)
MaskedSum(values, vcols, mask, mcols, cols, p) ==
    IF p = 0 THEN 0
    ELSE LET i == RowOf(p, cols)
             j == ColOf(p, cols)
             v == values[Flat(i, IF vcols = 1 THEN 0 ELSE j, vcols)]
             m == mask[Flat(i, IF mcols = 1 THEN 0 ELSE j, mcols)]
         IN (IF m THEN v ELSE 0) + MaskedSum(values, vcols, mask, mcols, cols, p - 1)

\* core_algos.average_loss(values, mask, mode): the mask-average
\* (values * mask).sum() / mask.sum() of two tensors of rows rows; the product
\* broadcasts, and raises when the two widths differ and neither is 1.
average_loss(values, vcols, mask, mcols, rows) ==
    IF vcols # mcols /\ vcols # 1 /\ mcols # 1 THEN NoLoss
    ELSE LET cols == IF vcols >= mcols THEN vcols ELSE mcols
         IN [ok |-> TRUE,
             num |-> MaskedSum(values, vcols, mask, mcols, cols, rows * cols),
             den |-> Len(Nonzero(mask))]

\* Lines 299-319: the surrogate loss over compact_response_mask and, when
\* use_kl_loss is set and ref_log_probs is in the batch, the KL penalty.
Losses(use_kl) ==
    /\ fpc = "projected"
    /\ pg_loss' = average_loss(per_token(compact_log_prob), micro_batch.compact_len,
                               micro_batch.compact_response_mask, micro_batch.compact_len,
                               micro_batch.rows)
    /\ kl_loss' = IF use_kl
                  THEN average_loss(per_token(compact_log_prob), micro_batch.compact_len,
                                    micro_batch.response_mask, micro_batch.seqlen,
                                    micro_batch.rows)
                  ELSE NoLoss
    /\ fpc' = IF use_kl /\ ~kl_loss'.ok THEN "loss_raised"
              ELSE IF use_kl THEN "kl_loss_done" ELSE "loss_done"
    /\ UNCHANGED <<micro_batch, indices, input_ids_rmpad, input_ids_rmpad_rolled,
                   log_probs, compact_log_prob, ckptVars, updVars, grpVars>>

NextMicro ==
    \/ GetCompact
    \/ GetCompactRaise
    \/ \E use_kl \in BOOLEAN : Losses(use_kl)

\* =========================================================================
\* update_policy on every worker of a group (dp_actor.py, lines 194-206, 340)
\* =========================================================================
\* The norms the gradient of one worker can have when a mini-batch is done.
LocalNorms == {Fin(1), NaN}

\* Mini-batches times epochs of one update_policy call, the same on every worker.
GroupSteps == MaxEpochs

GroupInit ==
    /\ is_fsdp \in BOOLEAN
    /\ gpc = [w \in Ranks |-> "backward"]
    /\ local_norms = [w \in Ranks |-> << >>]
    /\ group_grad_norm = [w \in Ranks |-> Fin(0)]
    /\ applied = [w \in Ranks |-> << >>]

\* Lines 286-338: the micro-batches of the next mini-batch leave a gradient in
\* the worker's parameters.
GroupBackward(w, norm) ==
    /\ gpc[w] = "backward"
    /\ Len(local_norms[w]) < GroupSteps
    /\ local_norms' = [local_norms EXCEPT ![w] = Append(@, norm)]
    /\ gpc' = [gpc EXCEPT ![w] = "clip"]
    /\ UNCHANGED <<is_fsdp, group_grad_norm, applied, ckptVars, updVars, fwdVars>>

RECURSIVE TotalNorm(_, _)
TotalNorm(ws, k) ==
    IF ws = {} THEN Fin(0)
    ELSE LET w == CHOOSE x \in ws : TRUE
         IN FAdd(local_norms[w][k], TotalNorm(ws \ {w}, k))

\* Faulty variant: the norm is not reduced over the group.
ClipGradNormFsdpLocal(w) ==
    /\ gpc[w] = "clip"
    /\ is_fsdp
    /\ group_grad_norm' =
          [group_grad_norm EXCEPT ![w] = local_norms[w][Len(local_norms[w])]]
    /\ gpc' = [gpc EXCEPT ![w] = "isfinite"]
    /\ UNCHANGED <<is_fsdp, local_norms, applied, ckptVars, updVars, fwdVars>>

\* Lines 195-196: FSDP.clip_grad_norm_ is a collective; it returns, on every
\* rank, the norm of the whole gradient, reduced over the local norms of all.
ClipGradNormFsdp(w) ==
    /\ gpc[w] = "clip"
    /\ is_fsdp
    /\ \A v \in Ranks : Len(local_norms[v]) >= Len(local_norms[w])
    /\ group_grad_norm' =
          [group_grad_norm EXCEPT ![w] = TotalNorm(Ranks, Len(local_norms[w]))]
    /\ gpc' = [gpc EXCEPT ![w] = "isfinite"]
    /\ UNCHANGED <<is_fsdp, local_norms, applied, ckptVars, updVars, fwdVars>>

\* Lines 197-198: nn.utils.clip_grad_norm_ on the worker's own parameters.
ClipGradNormLocal(w) ==
    /\ gpc[w] = "clip"
    /\ ~is_fsdp
    /\ group_grad_norm' =
          [group_grad_norm EXCEPT ![w] = local_norms[w][Len(local_norms[w])]]
    /\ gpc' = [gpc EXCEPT ![w] = "isfinite"]
    /\ UNCHANGED <<is_fsdp, local_norms, applied, ckptVars, updVars, fwdVars>>

\* Lines 200-206: step or skip, zero_grad, return.
GroupStepOrSkip(w) ==
    /\ gpc[w] = "isfinite"
    /\ applied' = [applied EXCEPT ![w] = Append(@, isfinite(group_grad_norm[w]))]
    /\ gpc' = [gpc EXCEPT ![w] = "backward"]
    /\ UNCHANGED <<is_fsdp, local_norms, group_grad_norm, ckptVars, updVars, fwdVars>>

NextGroup ==
    \E w \in Ranks :
        \/ \E norm \in LocalNorms : GroupBackward(w, norm)
        \/ ClipGradNormFsdp(w)
        \/ ClipGradNormLocal(w)
        \/ GroupStepOrSkip(w)

\* =========================================================================
\* Specifications
\* =========================================================================
\* The actor is not updating while the checkpoint protocol is checked ...
UpdIdle ==
    /\ cfg = [ppo_epochs |-> 1, n |-> 1, global_batch_size_per_device |-> 1,
              micro_batch_size_per_device_for_update |-> 1,
              max_grad_norm |-> MaxGradNorm, use_kl_loss |-> FALSE,
              has_ref_log_probs |-> FALSE]
    /\ upc = "done"
    /\ epoch = 1
    /\ mini = 0
    /\ micro = 0
    /\ grads = Fin(0)
    /\ params = Fin(0)
    /\ grad_norm = Fin(0)
    /\ pre_params = Fin(0)
    /\ metrics = NoMetrics
    /\ decisions = 0

\* ... and no checkpoint is taken during an update.
CkptIdle ==
    /\ CkptInit
    /\ \A c \in 1 .. MaxSaves : ~schedule[c]

\* No forward pass is under way.
FwdIdle ==
    /\ micro_batch = MicroBatchOf(1, 1, 1, <<FALSE>>, <<FALSE>>, <<FALSE>>, FALSE)
    /\ fpc = "idle"
    /\ log_probs = << >>
    /\ FwdLocals

\* No group update is under way.
GrpIdle ==
    /\ is_fsdp = TRUE
    /\ gpc = [w \in Ranks |-> "idle"]
    /\ local_norms = [w \in Ranks |-> << >>]
    /\ group_grad_norm = [w \in Ranks |-> Fin(0)]
    /\ applied = [w \in Ranks |-> << >>]

Init == CkptInit /\ UpdIdle /\ FwdIdle /\ GrpIdle

Spec == Init /\ [][Next]_vars

SpecResume == Init /\ [][NextResume]_vars

\* Every worker is a process of its own that keeps running: none of its
\* steps stays enabled forever without being taken.
SpecNoWriteFailure ==
    Init /\ [][NextNoWriteFailure]_vars /\ \A w \in Ranks : WF_vars(WorkerStep(w))

InitUpdate == UpdInit /\ CkptIdle /\ FwdIdle /\ GrpIdle

SpecUpdate == InitUpdate /\ [][NextUpdate]_vars

InitForward == FwdInit /\ CkptIdle /\ UpdIdle /\ GrpIdle

SpecForward == InitForward /\ [][NextForward]_vars

InitMicro == MicroInit /\ CkptIdle /\ UpdIdle /\ GrpIdle

SpecMicro == InitMicro /\ [][NextMicro]_vars

InitGroup == GroupInit /\ CkptIdle /\ UpdIdle /\ FwdIdle

SpecGroup == InitGroup /\ [][NextGroup]_vars


\* ------------------------------------------------------------- properties
\* The content save_checkpoint persists for a worker state st, per kind of file.
Persisted(st, kind) ==
    CASE kind = "model" -> st.model
      [] kind = "optim" -> st.optim
      [] kind = "extra_state" -> [lr_scheduler |-> st.lr_scheduler,
                                  rng |-> [cpu |-> st.rng]]

ExpectedKinds(save_model_only) == IF save_model_only THEN {"model"} ELSE Kinds

\* Positions of save_checkpoint after the return of the post-write barrier.
PostWriteBarrier == {"state_dict", "barrier3", "wait3"} \cup ExportPcs

\* C1: a worker that has written a shard file in its c-th save implies that the
\* target directory exists and that every worker has made its c-th call, finished
\* local_mkdir in it and entered the first barrier of that save.
C1_NoWriteBeforeAllArrived ==
    \A w \in Ranks :
        written[w] # {} =>
            /\ "P" \in dirs
            /\ \A v \in Ranks :
                 /\ calls[v] >= calls[w]
                 /\ arrived[v] >= 3 * (calls[w] - 1) + 1

C1_Witness ==
    \E w, v \in Ranks :
        /\ written[w] # {}
        /\ pc[w] = "save_optim"
        /\ pc[v] = "wait1"
        /\ calls[v] = calls[w]

\* C2: while a worker is past the post-write barrier of its c-th save, every
\* worker has written all the shard files of its c-th save (one when
\* save_model_only, three otherwise) and the files hold what it saved.
C2_NoPassBeforeAllWritten ==
    \A w \in Ranks :
        pc[w] \in PostWriteBarrier =>
            \A v \in Ranks :
                /\ calls[v] >= calls[w]
                /\ calls[v] = calls[w] =>
                     /\ written[v] = ExpectedKinds(smo[v])
                     /\ \A k \in written[v] :
                          files[<<k, NumWorkers, v>>] = Persisted(entry[v], k)

C2_Witness ==
    \E w, v \in Ranks :
        /\ pc[w] = "state_dict"
        /\ pc[v] = "wait2"
        /\ ~smo[v]
        /\ written[v] = Kinds

\* Every worker has returned from the same full save.
AllReturnedFull ==
    /\ \A w \in Ranks : pc[w] = "idle" /\ calls[w] >= 1 /\ ~smo[w]
    /\ \A w, v \in Ranks : calls[w] = calls[v]

\* C3: once a full save has returned on all workers, each rank's three files
\* exist, hold that rank's state as of the save, and were written by that rank only.
C3_ShardsPartition ==
    AllReturnedFull =>
        \A r \in Ranks : \A k \in Kinds :
            /\ files[<<k, NumWorkers, r>>] # None
            /\ files[<<k, NumWorkers, r>>] = Persisted(entry[r], k)
            /\ \A x \in writers[<<k, NumWorkers, r>>] : x[1] = r

C3_Witness ==
    /\ AllReturnedFull
    /\ \A w \in Ranks : calls[w] = 2
    /\ schedule[1]

\* C4: a failed merged export is caught and printed, the worker goes on to the
\* last barrier and returns instead of raising, and the shard files of that save
\* stay as written.
C4_ExportFailureContained ==
    \A w \in Ranks :
        failed[w] =>
            /\ pc[w] \in {"barrier3", "wait3", "idle"}
            /\ logged[w]
            /\ \A v \in Ranks :
                 calls[v] = calls[w] =>
                     \A k \in ExpectedKinds(smo[v]) :
                         files[<<k, NumWorkers, v>>] = Persisted(entry[v], k)

C4_Witness ==
    \E w \in Ranks :
        /\ failed[w]
        /\ pc[w] = "idle"
        /\ "weights" \in merged
        /\ "config" \notin merged

\* C5: only rank 0 creates or writes anything under P/merged_model.
C5_MergedOnlyRankZero ==
    /\ mwriters \subseteq {0}
    /\ merged # {} => mwriters = {0}

C5_Witness ==
    /\ merged = MergedArtifacts
    /\ "merged_model" \in dirs
    /\ \E w \in Ranks : w # 0 /\ pc[w] \in {"barrier3", "wait3"} /\ ~failed[w]

\* C9: a save_model_only save writes the worker's own model shard and no
\* optimizer or extra-state file: no such file is ever written by a
\* save_model_only call, and what an earlier full save left there stays.
C9_ModelOnlyWritesModelOnly ==
    /\ \A p \in AllPaths :
         p[1] \in {"optim", "extra_state"} => \A x \in writers[p] : ~x[2]
    /\ \A w \in Ranks :
         (smo[w] /\ calls[w] >= 1) =>
             /\ written[w] \subseteq {"model"}
             /\ pc[w] \in PostWriteBarrier \cup {"barrier2", "wait2"} =>
                  /\ written[w] = {"model"}
                  /\ files[<<"model", NumWorkers, w>>] = entry[w].model

C9_Witness ==
    \E w \in Ranks :
        /\ calls[w] = 2
        /\ smo[w]
        /\ pc[w] = "idle"
        /\ files[<<"model", NumWorkers, w>>] = Shard(w, 2)
        /\ files[<<"optim", NumWorkers, w>>] = Shard(w, 1)
        /\ files[<<"extra_state", NumWorkers, w>>] # None

\* Positions of load_checkpoint, and its two ways to end.
LoadPcs == {"set_model_state_dict", "set_state_dict", "lr_scheduler", "rng"} \cup ReadPcs

\* C6: a load with the optimizer shard absent and the model shard present does
\* not raise; it reads neither the optimizer nor the extra state, leaves
\* optimizer, scheduler and rng as they were when it was called, and returns
\* with the model equal to the saved model shard.
C6_ModelOnlyLoad ==
    \A w \in Ranks :
        (/\ load_world_size = NumWorkers
         /\ files[<<"optim", NumWorkers, w>>] = None
         /\ files[<<"model", NumWorkers, w>>] # None
         /\ pc[w] \in LoadPcs \cup {"loaded", "load_raised"}) =>
            /\ pc[w] # "load_raised"
            /\ live[w].optim = pre[w].optim
            /\ live[w].lr_scheduler = pre[w].lr_scheduler
            /\ live[w].rng = pre[w].rng
            /\ sd[w].optim = None /\ sd[w].extra_state = None
            /\ pc[w] = "loaded" => live[w].model = files[<<"model", NumWorkers, w>>]

C6_Witness ==
    \E w \in Ranks :
        /\ pc[w] = "loaded"
        /\ files[<<"optim", NumWorkers, w>>] = None
        /\ live[w].model = Shard(w, 1)
        /\ pre[w].model = Shard(w, 2)
        /\ live[w].optim = Shard(w, 2)

C8_RoundTrip ==
    \A w \in Ranks :
        (/\ pc[w] = "loaded"
         /\ written[w] = Kinds
         /\ pre[w] = InitLive(w)) => live[w] = entry[w]

C8_Witness ==
    \E w \in Ranks :
        /\ w # 0
        /\ pc[w] = "loaded"
        /\ written[w] = Kinds
        /\ pre[w] = InitLive(w)
        /\ entry[w] = [model |-> Shard(w, 2), optim |-> Shard(w, 2),
                       lr_scheduler |-> Shard(w, 2), rng |-> Shard(w, 2)]

\* C10: when _optimizer_step has decided, the parameters are those it was
\* entered with if grad_norm is not finite and the result of the optimizer
\* step on the clipped gradient otherwise; when it has returned, the gradient
\* is cleared in both cases, a non-finite norm has left the parameters as they
\* were and a finite norm of a non-zero gradient has changed them.
C10_GradientSkip ==
    /\ upc = "zero_grad" =>
         params = IF isfinite(grad_norm) THEN FSub(pre_params, grads) ELSE pre_params
    /\ (upc = "mini_loop" /\ mini >= 1) =>
         /\ grads = Fin(0)
         /\ ~isfinite(grad_norm) => params = pre_params
         /\ (isfinite(grad_norm) /\ grad_norm.v > 0) =>
                isfinite(params) /\ params # pre_params

C10_Witness ==
    /\ upc = "mini_loop"
    /\ mini = 2
    /\ ~isfinite(grad_norm)
    /\ grads = Fin(0)
    /\ params = pre_params
    /\ params # Fin(0)

\* Mini-batches whose step-or-skip decision is due, and micro-batches whose
\* backward pass has run, at the current point of the loops.
MiniBatchesStarted == epoch * NumMini + mini

RECURSIVE MicroUpTo(_)
MicroUpTo(i) == IF i = 0 THEN 0 ELSE NumMicro(i) + MicroUpTo(i - 1)

MicroBatchesDone ==
    epoch * MicroUpTo(NumMini) + (IF mini = 0 THEN 0 ELSE MicroUpTo(mini - 1) + micro)

\* C11: each mini-batch has exactly one step-or-skip decision, taken after the
\* backward pass of all its micro-batches and before the first micro-batch of
\* the next mini-batch; update_policy returns after ppo_epochs times the
\* number of mini-batches decisions; and a mini-batch starts from a cleared
\* gradient, whatever the decision of the one before.
C11_OneDecisionPerMiniBatch ==
    /\ upc \in {"micro_loop", "isfinite"} => decisions = MiniBatchesStarted - 1
    /\ upc \in {"zero_grad", "mini_loop"} => decisions = MiniBatchesStarted
    /\ upc \in {"isfinite", "zero_grad"} => micro = NumMicro(mini)
    /\ upc = "done" => decisions = cfg.ppo_epochs * NumMini
    /\ (upc = "micro_loop" /\ micro = 0) => grads = Fin(0)
    /\ upc = "mini_loop" => grads = Fin(0)

\* update_policy has returned after two epochs of two mini-batches, one of
\* them split into several micro-batches, and one decision was a skip.
C11_Witness ==
    /\ upc = "done"
    /\ cfg.ppo_epochs = 2
    /\ NumMini = 2
    /\ decisions = 4
    /\ Len(metrics["actor/pg_loss"].items) > decisions
    /\ ~isfinite(grad_norm)

TickLess(a, b) ==
    \/ a.e < b.e
    \/ a.e = b.e /\ a.m < b.m
    \/ a.e = b.e /\ a.m = b.m /\ a.u < b.u

\* The number of values the key has received so far when every value is kept.
ValuesDue(k) ==
    IF k \in BatchMetricKeys THEN MicroBatchesDone
    ELSE IF k \in KlMetricKeys
    THEN (IF cfg.use_kl_loss /\ cfg.has_ref_log_probs THEN MicroBatchesDone ELSE 0)
    ELSE (IF upc \in {"micro_loop", "isfinite", "zero_grad"}
          THEN MiniBatchesStarted - 1 ELSE MiniBatchesStarted)

\* C12: every metric key holds a list with one value per micro-batch processed
\* so far (per mini-batch for the gradient norm; none for the KL keys when the
\* KL penalty is off), in processing order; no key holds a bare scalar.
C12_MetricsAppended ==
    \A k \in MetricKeys :
        /\ metrics[k].list
        /\ Len(metrics[k].items) = ValuesDue(k)
        /\ \A i, j \in 1 .. Len(metrics[k].items) :
              i < j => TickLess(metrics[k].items[i], metrics[k].items[j])

\* C13: while a mini-batch is processed, the divisor of line 323 is a positive
\* integer, times the micro-batch size it is the size of that mini-batch, and
\* it is the number of micro-batches the mini-batch is split into.
C13_DivisorIsMicroCount ==
    upc = "micro_loop" =>
        /\ gradient_accumulation > 0
        /\ gradient_accumulation * cfg.micro_batch_size_per_device_for_update
             = ChunkSize(cfg.n, cfg.global_batch_size_per_device, mini)
        /\ gradient_accumulation = NumMicro(mini)

\* C14: a load_checkpoint(P) whose model shard file for the loading manager's
\* world size and the worker's rank is not in P never gets past its torch.load
\* calls: it has restored nothing, it has not returned, and it is reading or
\* has raised; a world size other than the one of the saves is such a case.
C14_MissingModelShardRaises ==
    \A w \in Ranks :
        (/\ pc[w] \in (LoadPcs \ {"load"}) \cup {"loaded", "load_raised"}
         /\ \/ <<"model", load_world_size, w>> \notin DOMAIN files
            \/ files[<<"model", load_world_size, w>>] = None) =>
            /\ pc[w] \in ReadPcs \cup {"load_raised"}
            /\ live[w] = pre[w]
            /\ sd[w].model = None

\* A complete checkpoint of NumWorkers workers is loaded by a worker of a
\* group of NumWorkers + 1: the load has raised.
C14_Witness ==
    \E w \in Ranks :
        /\ pc[w] = "load_raised"
        /\ load_world_size = NumWorkers + 1
        /\ \A k \in Kinds : files[<<k, NumWorkers, w>>] # None
        /\ live[w] = pre[w]

\* C16: in the padding-free path the index mapping lists exactly the
\* non-padding positions, each once, in row-major order, the packed token j is
\* the token at indices[j], and after padding back every non-padding position
\* holds the value computed for that position and every padding position zero.
C16_PackUnpackRoundTrip ==
    LET am == micro_batch.attention_mask
        n == micro_batch.rows * micro_batch.seqlen
    IN  /\ (micro_batch.padding_free
            /\ fpc \in {"roll", "forward_rmpad", "pad_input", "forwarded"}) =>
              /\ Len(indices) = Cardinality({p \in 1 .. n : am[p]})
              /\ \A j \in 1 .. Len(indices) : indices[j] \in 1 .. n /\ am[indices[j]]
              /\ \A j, k \in 1 .. Len(indices) : j < k => indices[j] < indices[k]
              /\ \A p \in 1 .. n : am[p] => \E j \in 1 .. Len(indices) : indices[j] = p
              /\ Len(input_ids_rmpad) = Len(indices)
              /\ \A j \in 1 .. Len(indices) :
                    input_ids_rmpad[j] = micro_batch.input_ids[indices[j]]
        /\ (micro_batch.padding_free /\ fpc = "forwarded") =>
              /\ Len(log_probs) = n
              /\ \A p \in 1 .. n :
                    IF am[p] THEN log_probs[p].pos = p ELSE log_probs[p] = ZeroValue

\* Two samples of three: one with a hole inside, one padded on both sides.
C16_Witness ==
    /\ fpc = "forwarded"
    /\ micro_batch.padding_free
    /\ micro_batch.rows = 2
    /\ micro_batch.attention_mask = <<TRUE, FALSE, TRUE, FALSE, TRUE, FALSE>>
    /\ indices = <<1, 3, 5>>
    /\ log_probs[5].pos = 5
    /\ log_probs[4] = ZeroValue

\* Position p is not padding and neither is the next position of its sample.
HasNextInSample(p) ==
    /\ micro_batch.attention_mask[p]
    /\ ColOf(p, micro_batch.seqlen) + 1 < micro_batch.seqlen
    /\ micro_batch.attention_mask[p + 1]

\* C17 as stated: at every non-padding position the packed mode's label is
\* the padded mode's label.
C17_LabelsAgreeEverywhere ==
    (micro_batch.padding_free /\ fpc = "forwarded") =>
        \A p \in 1 .. Len(log_probs) :
            micro_batch.attention_mask[p] =>
                log_probs[p].label = roll_dim1(micro_batch.input_ids, micro_batch.seqlen)[p]

\* C17, amended: at every non-padding position whose next position in the
\* same sample is not padding either, both modes compute the log-probability
\* of the token at that next position, under the logits of the position.
C17_LabelsAgreeInsideSample ==
    fpc = "forwarded" =>
        \A p \in 1 .. Len(log_probs) :
            HasNextInSample(p) =>
                /\ log_probs[p] = LogProb(p, micro_batch.input_ids[p + 1])
                /\ log_probs[p].label =
                      roll_dim1(micro_batch.input_ids, micro_batch.seqlen)[p]

\* Packed mode, two full samples of three tokens: inside a sample the label is
\* the next token; the label of the first sample's last token is the second
\* sample's first token.
C17_Witness ==
    /\ fpc = "forwarded"
    /\ micro_batch.padding_free
    /\ micro_batch.rows = 2
    /\ micro_batch.seqlen = 3
    /\ \A p \in 1 .. 6 : micro_batch.attention_mask[p]
    /\ log_probs[2] = LogProb(2, micro_batch.input_ids[3])
    /\ log_probs[3] = LogProb(3, micro_batch.input_ids[4])

\* The true positions of a mask, and its k-th true position in row-major order.
TrueSet(mask) == {p \in 1 .. Len(mask) : mask[p]}

KthTrue(mask, k) ==
    CHOOSE p \in TrueSet(mask) : Cardinality({q \in TrueSet(mask) : q <= p}) = k

Projected == fpc \in {"projected", "loss_done", "kl_loss_done", "loss_raised"}

\* C15: the forward step returns a log-probability tensor only when the two
\* masks have the same number of true positions; with different counts it
\* raises.
C15_CardinalityMismatchRaises ==
    Projected =>
        Cardinality(TrueSet(micro_batch.response_mask))
            = Cardinality(TrueSet(micro_batch.compact_response_mask))

\* C18: when the two masks have equally many true positions the projection
\* does not raise, and its result has the shape of compact_response_mask,
\* holds at the k-th true position of compact_response_mask the
\* log-probability at the k-th true position of response_mask, and holds
\* zero wherever compact_response_mask is false.
C18_CompactProjection ==
    LET rm == micro_batch.response_mask
        cm == micro_batch.compact_response_mask
    IN  Cardinality(TrueSet(rm)) = Cardinality(TrueSet(cm)) =>
            /\ fpc # "project_raised"
            /\ Projected =>
                /\ Len(compact_log_prob) = micro_batch.rows * micro_batch.compact_len
                /\ \A k \in 1 .. Cardinality(TrueSet(cm)) :
                      compact_log_prob[KthTrue(cm, k)] = log_probs[KthTrue(rm, k)]
                /\ \A q \in 1 .. Len(cm) : ~cm[q] => compact_log_prob[q] = ZeroValue

\* Two samples, padded layout of width 3 and compact layout of width 2, three
\* response tokens: the three values are in place.
C18_Witness ==
    /\ fpc = "projected"
    /\ micro_batch.rows = 2
    /\ micro_batch.response_mask = <<FALSE, TRUE, TRUE, FALSE, FALSE, TRUE>>
    /\ micro_batch.compact_response_mask = <<TRUE, TRUE, TRUE, FALSE>>
    /\ compact_log_prob = <<log_probs[2], log_probs[3], log_probs[6], ZeroValue>>

RECURSIVE SumOver(_, _)
SumOver(set, f) ==
    IF set = {} THEN 0
    ELSE LET p == CHOOSE x \in set : TRUE IN f[p] + SumOver(set \ {p}, f)

\* C19: when the KL penalty is computed, it is the average of the per-token
\* KL estimate over the true positions of compact_response_mask, the mask of
\* the surrogate loss, and the computation does not raise.
C19_KlAveragedOverCompactMask ==
    LET cm == micro_batch.compact_response_mask
    IN  /\ fpc # "loss_raised"
        /\ fpc = "kl_loss_done" =>
              /\ kl_loss.num = SumOver(TrueSet(cm), per_token(compact_log_prob))
              /\ kl_loss.den = Cardinality(TrueSet(cm))
              /\ kl_loss = pg_loss

\* C20 as stated: no two workers differ in the decision of the same step.
C20_SameDecision ==
    \A w, v \in Ranks :
        \A k \in 1 .. Len(applied[w]) :
            k <= Len(applied[v]) => applied[w][k] = applied[v][k]

\* C20, amended: when the actor module is FSDP-wrapped no two workers differ
\* in the decision of the same step, and the decision is to skip exactly when
\* the gradient of some worker is not finite.
C20_SameDecisionUnderFsdp ==
    is_fsdp =>
        \A w, v \in Ranks :
            \A k \in 1 .. Len(applied[w]) :
                /\ k <= Len(applied[v]) => applied[w][k] = applied[v][k]
                /\ applied[w][k] =
                      (\A u \in Ranks :
                          k <= Len(local_norms[u]) /\ isfinite(local_norms[u][k]))

\* Under FSDP every worker has decided GroupSteps steps; at the first only
\* rank 0 had a non-finite gradient and all skipped, at the last all applied.
C20_Witness ==
    /\ is_fsdp
    /\ \A w \in Ranks : Len(applied[w]) = GroupSteps
    /\ ~isfinite(local_norms[0][1])
    /\ \A w \in Ranks \ {0} : isfinite(local_norms[w][1])
    /\ \A w \in Ranks : ~applied[w][1] /\ applied[w][GroupSteps]

\* The barriers a worker has entered, from where it is in its current call.
BarriersEntered(w) ==
    IF pc[w] = "idle" THEN 3 * calls[w]
    ELSE 3 * (calls[w] - 1) +
         (CASE pc[w] = "barrier1" -> 0
            [] pc[w] \in {"wait1", "save_model", "save_optim", "save_extra", "barrier2"} -> 1
            [] pc[w] \in {"wait2", "state_dict", "barrier3"} \cup ExportPcs -> 2
            [] pc[w] = "wait3" -> 3
            [] OTHER -> 0 - 1)

AllSavesReturned == \A w \in Ranks : pc[w] = "idle" /\ calls[w] = MaxSaves

LastSaveModelOnly ==
    \A v \in Ranks : calls[v] >= 1 /\ calls[v] = calls[0] /\ smo[v] /\ written[v] = {"model"}

\* C22: a load_checkpoint(P) of the same world size and rank that follows a
\* sequence of saves ending with a model-only save takes the model-only
\* branch: it reads no optimizer or extra state, and when it has returned the
\* model is the one that last save wrote and optimizer, scheduler and rng are
\* as they were when it was called.
C22_LoadFollowsLastSave ==
    \A w \in Ranks :
        (LastSaveModelOnly /\ load_world_size = NumWorkers) =>
            /\ pc[w] \notin {"read_optim", "read_extra", "read_model", "set_state_dict",
                             "lr_scheduler", "rng"}
            /\ pc[w] = "loaded" =>
                  /\ live[w].model = entry[w].model
                  /\ live[w].optim = pre[w].optim
                  /\ live[w].lr_scheduler = pre[w].lr_scheduler
                  /\ live[w].rng = pre[w].rng

\* C23: when the two masks have equally many true positions in total, every
\* value the projection has placed in a row of the compact tensor is the
\* log-probability of a position in the same row of the padded tensor.
C23_RowsAligned ==
    LET rm == micro_batch.response_mask
        cm == micro_batch.compact_response_mask
    IN  (Projected /\ Cardinality(TrueSet(rm)) = Cardinality(TrueSet(cm))) =>
            \A q \in TrueSet(cm) :
                RowOf(compact_log_prob[q].pos, micro_batch.seqlen)
                    = RowOf(q, micro_batch.compact_len)

TypeOK ==
    /\ pc \in [Ranks -> {"idle", "raised", "save_model", "save_optim", "save_extra",
                         "state_dict", "wait1", "wait2", "wait3", "load", "stopped",
                         "set_model_state_dict", "set_state_dict", "lr_scheduler",
                         "rng", "loaded", "load_raised"}
                        \cup BarrierPcs \cup ExportPcs \cup ReadPcs]
    /\ merged \subseteq MergedArtifacts
    /\ dirs \subseteq {"P", "merged_model"}
    /\ upc \in {"mini_loop", "micro_loop", "isfinite", "zero_grad", "done"}
    /\ cfg \in Configs
====
